---- MODULE Spec2Model ----
(***************************************************************************)
(* The session store of student-manager-store (zustand + immer + axios).   *)
(*                                                                         *)
(* The store is one state object (`state`), changed only by set(...).      *)
(* Every action of the store is an async function: the part up to its      *)
(* first network request runs synchronously in the caller's task, and the  *)
(* part after the `await` runs when the response arrives.  JavaScript is   *)
(* single-threaded and runs each task to completion, so one TLA+ action    *)
(* is one such task: a call (up to the request being issued) or the        *)
(* handling of one response (through the guard's catch and the action's    *)
(* own catch).  The one place where an action awaits another action of     *)
(* the store, fetchById awaiting fetch, is split at that await: the rest   *)
(* of fetchById is a microtask (`continuation`) that runs before any       *)
(* other task.                                                             *)
(*                                                                         *)
(* Optional values (TypeScript `x?: T`) are sequences of length 0 or 1.    *)
(***************************************************************************)
EXTENDS Integers, Sequences, FiniteSets, Bags, TLC

VARIABLES
  state,         \* the zustand state object (interface Store)
  header,        \* axios.defaults.headers.common['Authorization']
  inflight,      \* bag of requests awaiting their response
  continuation,  \* the microtask left by an awaited store action, if any
  last           \* observation of the last task: what ran and what it saw

vars == <<state, header, inflight, continuation, last>>

----------------------------------------------------------------------------
(* Bounds *)

\* Requests that may await a response at the same time.
MaxInFlight == 2

\* The largest value a counter of a StudentPerformance is driven to.
MaxCounter == 4

\* Requests that may await a response at the same time in the
\* specifications that guard their calls with CanCall.
MaxOptimisticInFlight == 1

\* addActivityScore is called while every cached score list is shorter.
MaxScores == 4

----------------------------------------------------------------------------
(* Optional values *)

Undefined == <<>>
Some(x) == <<x>>
IsDefined(o) == o # <<>>
Val(o) == o[1]

----------------------------------------------------------------------------
(* Data: models/class.ts, studentPerformance.ts, and the server's bodies *)

ClassIds == {1, 2}
Tokens == {"t1", "t2"}

StudentPerformance(id, scores, points, homeworks, warnings) ==
  [id |-> id, activityScores |-> scores, activityPoints |-> points,
   missingHomeworks |-> homeworks, loudnessWarnings |-> warnings]

Class(id, label, sps) == [id |-> id, label |-> label, studentsPerformance |-> sps]

ActivityScore(id, score) == [id |-> id, score |-> score]

SpIds == {1, 2}
\* Ids passed to deleteActivityScore: a middle entry and the last one.
ScoreIds == {2, 3}

\* Class 1 as the server returns it: a record with scores and activity
\* points, and a record with no optional field set.
Class1 ==
  Class(1, "5A",
    Some(<< StudentPerformance(1,
              Some(<<ActivityScore(1, 5), ActivityScore(2, 7), ActivityScore(3, 5)>>),
              Some(2), Undefined, Undefined),
            StudentPerformance(2, Undefined, Undefined, Undefined, Undefined) >>))

\* Class 1 in another server state: the first record has the two other
\* counters and neither scores nor points.
Class1Alt ==
  Class(1, "5A",
    Some(<< StudentPerformance(1, Undefined, Undefined, Some(1), Some(1)),
            StudentPerformance(2, Undefined, Undefined, Undefined, Undefined) >>))

\* Class 1 without its performance list (studentsPerformance?: ...).
Class1Bare == Class(1, "5B", Undefined)

Class2 ==
  Class(2, "6A",
    Some(<< StudentPerformance(1, Some(<<>>), Undefined, Undefined, Undefined) >>))

AllClasses == {Class1, Class1Alt, Class1Bare, Class2}

\* Bodies of GET /classes.
ClassLists ==
  { <<>>, <<Class1>>, <<Class1Alt>>, <<Class2>>, <<Class1, Class2>>, <<Class2, Class1Bare>> }

\* Bodies of GET /classes/{id}.
ClassBodies(id) == { c \in AllClasses : c.id = id }

\* Arguments of the counter actions.
Points == {-1, 2}
Amounts == {1, 2}

\* What `e` holds in a catch block: e.name, e.response?.status,
\* e.response?.data?.message.
Error(name, status, message) == [name |-> name, status |-> status, message |-> message]

NetworkError == Error("AxiosError", Undefined, Undefined)
HttpError(status) == Error("AxiosError", Some(status), Undefined)
TypeError == Error("TypeError", Undefined, Undefined)

\* Ways a request fails: no response at all, or a non-2xx status.
Failures == { NetworkError, HttpError(400), HttpError(401), HttpError(500) }

\* A response: `data` is response.data, Undefined for a falsy body.
Success(data) == [ok |-> TRUE, data |-> data, error |-> Undefined]
Failure(e) == [ok |-> FALSE, data |-> Undefined, error |-> Some(e)]

FailureResponses == { Failure(e) : e \in Failures }

FetchResponses ==
  { Success(Some(l)) : l \in ClassLists } \cup {Success(Undefined)} \cup FailureResponses

FetchByIdResponses(id) ==
  { Success(Some(c)) : c \in ClassBodies(id) } \cup {Success(Undefined)} \cup FailureResponses

LoginResponses ==
  { Success(Some([access_token |-> t])) : t \in Tokens } \cup {Success(Undefined)}
    \cup FailureResponses

----------------------------------------------------------------------------
(* Requests in flight.  A request keeps what the code after its await      *)
(* still uses: the action's arguments and, for a fetch awaited by          *)
(* fetchById, the caller to resume.                                        *)

Request(op, classId, parent) ==
  [op |-> op, classId |-> classId, spId |-> 0, immediate |-> FALSE, parent |-> parent]

FetchRequest == Request("fetch", 0, "none")
AwaitedFetchRequest(id) == Request("fetch", id, "fetchById")
FetchByIdRequest(id) == Request("fetchById", id, "none")
LoginRequest == Request("login", 0, "none")

One(r) == SetToBag({r})
Pending == BagToSet(inflight)
CanIssue == BagCardinality(inflight) < MaxInFlight

\* No microtask is pending: a new task (a call, a response) may run.
Idle == continuation = Undefined

----------------------------------------------------------------------------
(* Record<number, T> *)

Put(map, k, v) == [x \in (DOMAIN map) \cup {k} |-> IF x = k THEN v ELSE map[x]]

RECURSIVE PutAll(_, _)
\* classes.forEach(class_ => { map[class_.id] = class_ })
PutAll(map, list) ==
  IF list = <<>> THEN map
  ELSE PutAll(Put(map, Head(list).id, Head(list)), Tail(list))

----------------------------------------------------------------------------
(* The result of running a piece of an action: the state it leaves, and    *)
(* whether it threw.                                                       *)

Returned(s) == [state |-> s, threw |-> FALSE, error |-> Undefined]
Threw(s, e) == [state |-> s, threw |-> TRUE, error |-> Some(e)]

\* How the promise of an action ends.
Settled(op, result, value) ==
  Some([op |-> op,
        how |-> IF result.threw THEN "rejected" ELSE "resolved",
        value |-> value])

Observation(act, req, resp, settled, caught, before, after) ==
  [act |-> act, args |-> Undefined, req |-> req, resp |-> resp, settled |-> settled,
   caught |-> caught,
   removed |-> (DOMAIN before.classes) \ (DOMAIN after.classes)]

\* The arguments of a call of a mutating action.
Args(classId, spId, value, immediate) ==
  Some([classId |-> classId, spId |-> spId, value |-> value, immediate |-> immediate])

----------------------------------------------------------------------------
(* guardUnauthorizedRequest *)

\* The guard without its status test: any failure demotes the session.
guardUnauthorizedRequest_anyFailure(r) ==
  IF r.threw THEN [r EXCEPT !.state.isAuthenticated = Some(FALSE)] ELSE r

\* The guard demoting the session on 400 as well as on 401.
guardUnauthorizedRequest_clientError(r) ==
  IF r.threw /\ Val(r.error).status \in {Some(400), Some(401)}
  THEN [r EXCEPT !.state.isAuthenticated = Some(FALSE)]
  ELSE r

\* try { await request() } catch (e) { if 401: isAuthenticated = false; throw e }
guardUnauthorizedRequest(r) ==
  IF r.threw /\ Val(r.error).status = Some(401)
  THEN [r EXCEPT !.state.isAuthenticated = Some(FALSE)]
  ELSE r

----------------------------------------------------------------------------
(* fetch *)

\* fetch as in the first revision, without `state.classes = {}`.
fetchRequest_merge(s, resp) ==
  IF ~resp.ok THEN Threw(s, Val(resp.error))
  ELSE IF ~IsDefined(resp.data) THEN Threw(s, TypeError)
  ELSE Returned([s EXCEPT !.classes = PutAll(s.classes, Val(resp.data)),
                          !.isInitialized = TRUE,
                          !.isLoading = FALSE])

\* fetch storing only the classes that are not cached yet.
fetchRequest_keepCached(s, resp) ==
  IF ~resp.ok THEN Threw(s, Val(resp.error))
  ELSE IF ~IsDefined(resp.data) THEN Threw(s, TypeError)
  ELSE Returned([s EXCEPT !.classes =
                            [k \in DOMAIN s.classes \cup DOMAIN PutAll(<<>>, Val(resp.data)) |->
                               IF k \in DOMAIN s.classes THEN s.classes[k]
                               ELSE PutAll(<<>>, Val(resp.data))[k]],
                          !.isInitialized = TRUE,
                          !.isLoading = FALSE])

\* fetch flipping isInitialized on each successful response.
fetchRequest_toggle(s, resp) ==
  IF ~resp.ok THEN Threw(s, Val(resp.error))
  ELSE IF ~IsDefined(resp.data) THEN Threw(s, TypeError)
  ELSE Returned([s EXCEPT !.classes = PutAll(<<>>, Val(resp.data)),
                          !.isInitialized = ~s.isInitialized,
                          !.isLoading = FALSE])

\* The request function fetch hands to the guard, from the response on.
fetchRequest(s, resp) ==
  IF ~resp.ok THEN Threw(s, Val(resp.error))
  ELSE IF ~IsDefined(resp.data) THEN Threw(s, TypeError)  \* classes.forEach of a falsy body
  ELSE Returned([s EXCEPT !.classes = PutAll(<<>>, Val(resp.data)),
                          !.isInitialized = TRUE,
                          !.isLoading = FALSE])

\* fetch without its try/catch.
fetchCatch_none(r) == r

\* catch (e) { console.error(...); set(() => ({ isLoading: false })) }
fetchCatch(r) ==
  IF r.threw THEN Returned([r.state EXCEPT !.isLoading = FALSE]) ELSE r

\* fetch() that issues its request without setting isLoading.
fetchCall_noFlag(s) == s

\* The synchronous part of fetch(): set isLoading, issue GET /classes.
fetchCall(s) == [s EXCEPT !.isLoading = TRUE]

fetch ==
  /\ Idle /\ CanIssue
  /\ state' = fetchCall(state)
  /\ inflight' = inflight (+) One(FetchRequest)
  /\ last' = Observation("fetch", Some(FetchRequest), Undefined, Undefined, Undefined,
                         state, state')
  /\ UNCHANGED <<header, continuation>>

fetchResponse ==
  \E r \in Pending, resp \in FetchResponses :
    /\ Idle
    /\ r.op = "fetch"
    /\ LET g == guardUnauthorizedRequest(fetchRequest(state, resp))
           f == fetchCatch(g)
       IN /\ state' = f.state
          /\ inflight' = inflight (-) One(r)
          /\ continuation' =
               IF r.parent = "fetchById" /\ ~f.threw
               THEN Some([op |-> "fetchById", id |-> r.classId])
               ELSE Undefined
          /\ last' = Observation("fetchResponse", Some(r), Some(resp),
                                 Settled("fetch", f, Undefined), g.error, state, f.state)
    /\ UNCHANGED header

----------------------------------------------------------------------------
(* fetchById *)

fetchByIdRequest(s, id, resp) ==
  IF ~resp.ok THEN Threw(s, Val(resp.error))
  ELSE IF ~IsDefined(resp.data) THEN Returned(s)      \* if (!response.data) return
  ELSE Returned([s EXCEPT !.classes = Put(s.classes, id, Val(resp.data)),
                          !.isLoading = FALSE])

fetchByIdCatch(r) ==
  IF r.threw THEN Returned([r.state EXCEPT !.isLoading = FALSE]) ELSE r

\* fetchById without the `await` of the full fetch.
fetchByIdFirstRequest_noAwait(s, id) == FetchByIdRequest(id)

\* if (!get().isInitialized) { await get().fetch() }
fetchByIdFirstRequest(s, id) ==
  IF s.isInitialized THEN FetchByIdRequest(id) ELSE AwaitedFetchRequest(id)

\* fetchById(id) up to its first await: the full fetch when the store is
\* not initialized, its own request otherwise.
fetchById ==
  \E id \in ClassIds :
    /\ Idle /\ CanIssue
    /\ LET r == fetchByIdFirstRequest(state, id)
       IN /\ state' = [state EXCEPT !.isLoading = TRUE]
          /\ inflight' = inflight (+) One(r)
          /\ last' = Observation("fetchById", Some(r), Undefined, Undefined, Undefined,
                                 state, state')
    /\ UNCHANGED <<header, continuation>>

\* fetchById after `await get().fetch()`.
fetchByIdContinue ==
  /\ IsDefined(continuation)
  /\ Val(continuation).op = "fetchById"
  /\ LET r == FetchByIdRequest(Val(continuation).id)
     IN /\ state' = [state EXCEPT !.isLoading = TRUE]
        /\ inflight' = inflight (+) One(r)
        /\ last' = [last EXCEPT !.act = "fetchByIdContinue", !.settled = Undefined,
                                !.caught = Undefined, !.removed = {}]
  /\ continuation' = Undefined
  /\ UNCHANGED header

fetchByIdResponse ==
  \E r \in Pending :
    /\ Idle
    /\ r.op = "fetchById"
    /\ \E resp \in FetchByIdResponses(r.classId) :
         LET g == guardUnauthorizedRequest(fetchByIdRequest(state, r.classId, resp))
             f == fetchByIdCatch(g)
         IN /\ state' = f.state
            /\ inflight' = inflight (-) One(r)
            /\ last' = Observation("fetchByIdResponse", Some(r), Some(resp),
                                   Settled("fetchById", f, Undefined), g.error,
                                   state, f.state)
    /\ UNCHANGED <<header, continuation>>

----------------------------------------------------------------------------
(* login, logout, updateToken *)

\* axios.defaults.headers.common['Authorization'] = `Bearer ${token}`
Bearer(token) == "Bearer " \o token

updateTokenCall(s, token) ==
  [s EXCEPT !.isAuthenticated = Some(TRUE), !.authToken = Some(token)]

\* The header set to the bare token.
updateTokenHeader_bare(token) == token

updateTokenHeader(token) == Bearer(token)

\* logout also dropping the fetched classes and the initialized flag.
logoutCall_reset(s) ==
  [s EXCEPT !.isAuthenticated = Some(FALSE), !.authToken = Undefined,
            !.classes = <<>>, !.isInitialized = FALSE]

logoutCall(s) == [s EXCEPT !.isAuthenticated = Some(FALSE), !.authToken = Undefined]

\* logout leaving the header of the session it ends.
logoutHeader_stale == Bearer("t1")

\* axios.defaults.headers.common['Authorization'] = false
logoutHeader == "false"

updateToken ==
  \E token \in Tokens :
    /\ Idle
    /\ state' = updateTokenCall(state, token)
    /\ header' = updateTokenHeader(token)
    /\ last' = Observation("updateToken", Undefined, Undefined, Undefined, Undefined,
                           state, state')
    /\ UNCHANGED <<inflight, continuation>>

logout ==
  /\ Idle
  /\ state' = logoutCall(state)
  /\ header' = logoutHeader
  /\ last' = Observation("logout", Undefined, Undefined, Undefined, Undefined,
                         state, state')
  /\ UNCHANGED <<inflight, continuation>>

\* login up to its await: POST /auth/login, not through the guard.
login ==
  /\ Idle /\ CanIssue
  /\ inflight' = inflight (+) One(LoginRequest)
  /\ last' = Observation("login", Some(LoginRequest), Undefined, Undefined, Undefined,
                         state, state)
  /\ UNCHANGED <<state, header, continuation>>

\* login with its request run through the guard.
loginResult_guarded(s, h, resp) ==
  IF ~resp.ok
    THEN [state |-> guardUnauthorizedRequest(Threw(s, Val(resp.error))).state,
          header |-> h, threw |-> FALSE, error |-> Undefined,
          value |-> Some("null"), caught |-> resp.error]
  ELSE IF ~IsDefined(resp.data)
    THEN [state |-> s, header |-> h, threw |-> FALSE, error |-> Undefined,
          value |-> Undefined, caught |-> Undefined]
  ELSE LET token == Val(resp.data).access_token
       IN [state |-> updateTokenCall(s, token), header |-> updateTokenHeader(token),
           threw |-> FALSE, error |-> Undefined,
           value |-> Some(token), caught |-> Undefined]

\* login from the response on: the state and header it leaves, the value
\* its promise resolves to ("null", Undefined for `return`, or the token).
loginResult(s, h, resp) ==
  IF ~resp.ok
    THEN [state |-> s, header |-> h, threw |-> FALSE, error |-> Undefined,
          value |-> Some("null"), caught |-> resp.error]
  ELSE IF ~IsDefined(resp.data)
    THEN [state |-> s, header |-> h, threw |-> FALSE, error |-> Undefined,
          value |-> Undefined, caught |-> Undefined]
  ELSE LET token == Val(resp.data).access_token
       IN [state |-> updateTokenCall(s, token), header |-> updateTokenHeader(token),
           threw |-> FALSE, error |-> Undefined,
           value |-> Some(token), caught |-> Undefined]

loginResponse ==
  \E r \in Pending, resp \in LoginResponses :
    /\ Idle
    /\ r.op = "login"
    /\ LET f == loginResult(state, header, resp)
       IN /\ state' = f.state
          /\ header' = f.header
          /\ inflight' = inflight (-) One(r)
          /\ last' = Observation("loginResponse", Some(r), Some(resp),
                                 Settled("login", f, f.value), f.caught, state, f.state)
    /\ UNCHANGED continuation

----------------------------------------------------------------------------
(* The optimistic mutations (second store of part_000).  With immediate    *)
(* set, the action changes the cached StudentPerformance before it issues  *)
(* its request, and its request function returns without touching the      *)
(* cache.                                                                  *)

\* The request of a mutating action.  With immediate set, the code after
\* the await reads none of the action's other arguments.
MutationRequest(op, classId, spId, immediate) ==
  [op |-> op,
   classId |-> IF immediate THEN 0 ELSE classId,
   spId |-> IF ~immediate /\ op = "addMissingHomework" THEN spId ELSE 0,
   immediate |-> immediate,
   parent |-> "none"]

\* Bodies of the mutating endpoints that return the class: the class of the
\* request, or any class when the request no longer tells which.
MutationResponses(r) ==
  { Success(Some(c)) : c \in IF r.immediate THEN {Class1Alt} ELSE ClassBodies(r.classId) }
    \cup {Success(Undefined)} \cup FailureResponses

\* studentsPerformance.find(sp => sp.id === spId): the first index, or 0.
FindIndex(sps, spId) ==
  IF \E i \in DOMAIN sps : sps[i].id = spId
  THEN CHOOSE i \in DOMAIN sps :
         sps[i].id = spId /\ \A j \in 1..(i - 1) : sps[j].id # spId
  ELSE 0

\* deleteActivityScore keeping the entries of the given id.
deleteActivityScoreLocal_keep(sp, id) ==
  [sp EXCEPT !.activityScores =
     IF IsDefined(@) THEN Some(SelectSeq(Val(@), LAMBDA a : a.id = id)) ELSE Undefined]

\* sp.activityScores = sp?.activityScores?.filter(as => as.id !== id)
deleteActivityScoreLocal(sp, id) ==
  [sp EXCEPT !.activityScores =
     IF IsDefined(@) THEN Some(SelectSeq(Val(@), LAMBDA a : a.id # id)) ELSE Undefined]

\* addActivityPoints assigning the points instead of adding them.
addActivityPointsLocal_assign(sp, points) ==
  IF IsDefined(sp.activityPoints)
  THEN [sp EXCEPT !.activityPoints = Some(points)]
  ELSE sp

\* addActivityPoints without the `!== undefined` test.
addActivityPointsLocal_materialize(sp, points) ==
  IF IsDefined(sp.activityPoints)
  THEN [sp EXCEPT !.activityPoints = Some(Val(@) + points)]
  ELSE [sp EXCEPT !.activityPoints = Some(points)]

\* if (sp && sp.activityPoints !== undefined) { sp.activityPoints += points }
addActivityPointsLocal(sp, points) ==
  IF IsDefined(sp.activityPoints)
  THEN [sp EXCEPT !.activityPoints = Some(Val(@) + points)]
  ELSE sp

\* if (sp && sp.loudnessWarnings !== undefined) { sp.loudnessWarnings += 1 }
addLoudnessWarningLocal(sp) ==
  IF IsDefined(sp.loudnessWarnings)
  THEN [sp EXCEPT !.loudnessWarnings = Some(Val(@) + 1)]
  ELSE sp

\* if (sp && sp.loudnessWarnings !== undefined) { sp.loudnessWarnings -= 1 }
deleteLastLoudnessWarningLocal(sp) ==
  IF IsDefined(sp.loudnessWarnings)
  THEN [sp EXCEPT !.loudnessWarnings = Some(Val(@) - 1)]
  ELSE sp

\* if (sp && sp.missingHomeworks !== undefined) { sp.missingHomeworks += amount }
addMissingHomeworkLocal(sp, amount) ==
  IF IsDefined(sp.missingHomeworks)
  THEN [sp EXCEPT !.missingHomeworks = Some(Val(@) + amount)]
  ELSE sp

\* if (sp && sp.missingHomeworks !== undefined) { sp.missingHomeworks += 1 }
deleteLastMissingHomeworkLocal(sp) ==
  IF IsDefined(sp.missingHomeworks)
  THEN [sp EXCEPT !.missingHomeworks = Some(Val(@) + 1)]
  ELSE sp

\* sp.missingHomeworks = response.data
setMissingHomeworksLocal(sp, data) == [sp EXCEPT !.missingHomeworks = Some(data)]

\* sp.activityScores = sp.activityScores ? [...sp.activityScores, data] : [data]
appendActivityScoreLocal(sp, data) ==
  [sp EXCEPT !.activityScores = IF IsDefined(@) THEN Some(Append(Val(@), data)) ELSE Some(<<data>>)]

\* The change each action makes to the record it found.
applyLocal(op, sp, value) ==
  CASE op = "deleteActivityScore" -> deleteActivityScoreLocal(sp, value)
    [] op = "addActivityPoints" -> addActivityPointsLocal(sp, value)
    [] op = "addLoudnessWarning" -> addLoudnessWarningLocal(sp)
    [] op = "deleteLastLoudnessWarning" -> deleteLastLoudnessWarningLocal(sp)
    [] op = "addMissingHomework" -> addMissingHomeworkLocal(sp, value)
    [] op = "deleteLastMissingHomework" -> deleteLastMissingHomeworkLocal(sp)
    [] op = "setMissingHomeworks" -> setMissingHomeworksLocal(sp, value)
    [] op = "appendActivityScore" -> appendActivityScoreLocal(sp, value)

\* The lookup written state.classes[classId]?.studentsPerformance: a class
\* that is not cached is skipped like a record that is not found.
mutateStudentPerformance_lenient(s, classId, spId, op, value) ==
  IF classId \notin DOMAIN s.classes THEN Returned(s)
  ELSE LET c == s.classes[classId]
       IN IF ~IsDefined(c.studentsPerformance) THEN Returned(s)
          ELSE LET sps == Val(c.studentsPerformance)
                   i == FindIndex(sps, spId)
               IN IF i = 0 THEN Returned(s)
                  ELSE Returned([s EXCEPT !.classes[classId].studentsPerformance =
                                            Some([sps EXCEPT ![i] = applyLocal(op, sps[i], value)])])

\* set(produce(state => { const sp = state.classes[classId]
\*   .studentsPerformance?.find(...); if (sp ...) { ... } }))
\* A classId that is not cached makes produce throw a TypeError.
mutateStudentPerformance(s, classId, spId, op, value) ==
  IF classId \notin DOMAIN s.classes THEN Threw(s, TypeError)
  ELSE LET c == s.classes[classId]
       IN IF ~IsDefined(c.studentsPerformance) THEN Returned(s)
          ELSE LET sps == Val(c.studentsPerformance)
                   i == FindIndex(sps, spId)
               IN IF i = 0 THEN Returned(s)
                  ELSE Returned([s EXCEPT !.classes[classId].studentsPerformance =
                                            Some([sps EXCEPT ![i] = applyLocal(op, sps[i], value)])])

\* The counters of every cached StudentPerformance are within the bound.
CounterRange == 0..MaxCounter

InBounds(s) ==
  \A k \in DOMAIN s.classes :
    IsDefined(s.classes[k].studentsPerformance) =>
      \A i \in DOMAIN Val(s.classes[k].studentsPerformance) :
        LET sp == Val(s.classes[k].studentsPerformance)[i]
        IN \A c \in {sp.activityPoints, sp.missingHomeworks, sp.loudnessWarnings} :
             IsDefined(c) => Val(c) \in CounterRange

\* A mutating action that makes its local change whatever immediate is.
MutationCall_local(op, classId, spId, value, immediate, local) ==
  LET r == MutationRequest(op, classId, spId, immediate)
  IN /\ Idle /\ CanIssue
     /\ InBounds(local.state)
     /\ state' = local.state
     /\ inflight' = IF local.threw THEN inflight ELSE inflight (+) One(r)
     /\ last' = [Observation(op,
                             IF local.threw THEN Undefined ELSE Some(r),
                             Undefined,
                             IF local.threw THEN Settled(op, local, Undefined) ELSE Undefined,
                             Undefined, state, local.state)
                   EXCEPT !.args = Args(classId, spId, value, immediate)]
     /\ UNCHANGED <<header, continuation>>

\* A mutating action up to its await: the local change when immediate is
\* set, then the request.  A local change that throws rejects the action
\* before any request is issued.
MutationCall(op, classId, spId, value, immediate, local) ==
  LET l == IF immediate THEN local ELSE Returned(state)
      r == MutationRequest(op, classId, spId, immediate)
  IN /\ Idle /\ CanIssue
     /\ InBounds(l.state)
     /\ state' = l.state
     /\ inflight' = IF l.threw THEN inflight ELSE inflight (+) One(r)
     /\ last' = [Observation(op,
                             IF l.threw THEN Undefined ELSE Some(r),
                             Undefined,
                             IF l.threw THEN Settled(op, l, Undefined) ELSE Undefined,
                             Undefined, state, l.state)
                   EXCEPT !.args = Args(classId, spId, value, immediate)]
     /\ UNCHANGED <<header, continuation>>

\* The body stored only when the class is not cached yet.
replaceClass_first(s, classId, data) ==
  IF classId \in DOMAIN s.classes THEN s ELSE [s EXCEPT !.classes = Put(s.classes, classId, data)]

\* state.classes[classId] = response.data
replaceClass(s, classId, data) == [s EXCEPT !.classes = Put(s.classes, classId, data)]

\* The request function without the test of immediate.
replaceRequest_always(s, r, resp) ==
  IF ~resp.ok THEN Threw(s, Val(resp.error))
  ELSE IF ~IsDefined(resp.data) THEN Returned(s)
  ELSE Returned(replaceClass(s, r.classId, Val(resp.data)))

\* The request function of the actions that replace the class by the body:
\* if (!response.data || immediate) return; set(classes[classId] = data)
replaceRequest(s, r, resp) ==
  IF ~resp.ok THEN Threw(s, Val(resp.error))
  ELSE IF ~IsDefined(resp.data) \/ r.immediate THEN Returned(s)
  ELSE Returned(replaceClass(s, r.classId, Val(resp.data)))

\* addActivityPoints storing the body whatever immediate is.
addActivityPointsRequest_replace(s, r, resp) ==
  IF ~resp.ok THEN Threw(s, Val(resp.error))
  ELSE IF ~IsDefined(resp.data) THEN Returned(s)
  ELSE Returned([replaceClass(s, r.classId, Val(resp.data))
                   EXCEPT !.isOperationLoading = Some(FALSE)])

\* As replaceRequest, and state.isOperationLoading = false.
addActivityPointsRequest(s, r, resp) ==
  IF ~resp.ok THEN Threw(s, Val(resp.error))
  ELSE IF ~IsDefined(resp.data) \/ r.immediate THEN Returned(s)
  ELSE Returned([replaceClass(s, r.classId, Val(resp.data))
                   EXCEPT !.isOperationLoading = Some(FALSE)])

\* The handling of a mutating action's response: the request function under
\* the guard, and no catch in the action.
MutationResponse(op, r, resp, result) ==
  LET g == guardUnauthorizedRequest(result)
  IN /\ Idle
     /\ r.op = op
     /\ state' = g.state
     /\ inflight' = inflight (-) One(r)
     /\ last' = Observation(op \o "Response", Some(r), Some(resp),
                            Settled(op, g, Undefined), Undefined, state, g.state)
     /\ UNCHANGED <<header, continuation>>

deleteActivityScore(immediate) ==
  \E classId \in ClassIds, spId \in SpIds, id \in ScoreIds :
    MutationCall("deleteActivityScore", classId, spId, id, immediate,
      mutateStudentPerformance(state, classId, spId, "deleteActivityScore", id))

deleteActivityScoreResponse ==
  \E r \in Pending : \E resp \in MutationResponses(r) :
    MutationResponse("deleteActivityScore", r, resp, replaceRequest(state, r, resp))

addActivityPoints(immediate) ==
  \E classId \in ClassIds, spId \in SpIds, points \in Points :
    MutationCall("addActivityPoints", classId, spId, points, immediate,
      mutateStudentPerformance(state, classId, spId, "addActivityPoints", points))

addActivityPointsResponse ==
  \E r \in Pending : \E resp \in MutationResponses(r) :
    MutationResponse("addActivityPoints", r, resp, addActivityPointsRequest(state, r, resp))

addLoudnessWarning(immediate) ==
  \E classId \in ClassIds, spId \in SpIds :
    MutationCall("addLoudnessWarning", classId, spId, 1, immediate,
      mutateStudentPerformance(state, classId, spId, "addLoudnessWarning", 1))

addLoudnessWarningResponse ==
  \E r \in Pending : \E resp \in MutationResponses(r) :
    MutationResponse("addLoudnessWarning", r, resp, replaceRequest(state, r, resp))

deleteLastLoudnessWarning(immediate) ==
  \E classId \in ClassIds, spId \in SpIds :
    MutationCall("deleteLastLoudnessWarning", classId, spId, 1, immediate,
      mutateStudentPerformance(state, classId, spId, "deleteLastLoudnessWarning", 1))

deleteLastLoudnessWarningResponse ==
  \E r \in Pending : \E resp \in MutationResponses(r) :
    MutationResponse("deleteLastLoudnessWarning", r, resp, replaceRequest(state, r, resp))

addMissingHomework(immediate) ==
  \E classId \in ClassIds, spId \in SpIds, amount \in Amounts :
    MutationCall("addMissingHomework", classId, spId, amount, immediate,
      mutateStudentPerformance(state, classId, spId, "addMissingHomework", amount))

\* Bodies of POST .../missingHomeworks: the new count; 0 is falsy.
MissingHomeworkResponses(r) ==
  { Success(Some(n)) : n \in IF r.immediate THEN {2} ELSE {0, 2} }
    \cup {Success(Undefined)} \cup FailureResponses

\* if (!response.data || immediate) return; sp.missingHomeworks = response.data
addMissingHomeworkRequest(s, r, resp) ==
  IF ~resp.ok THEN Threw(s, Val(resp.error))
  ELSE IF ~IsDefined(resp.data) \/ Val(resp.data) = 0 \/ r.immediate THEN Returned(s)
  ELSE mutateStudentPerformance(s, r.classId, r.spId, "setMissingHomeworks", Val(resp.data))

addMissingHomeworkResponse ==
  \E r \in Pending : \E resp \in MissingHomeworkResponses(r) :
    MutationResponse("addMissingHomework", r, resp, addMissingHomeworkRequest(state, r, resp))

deleteLastMissingHomework(immediate) ==
  \E classId \in ClassIds, spId \in SpIds :
    MutationCall("deleteLastMissingHomework", classId, spId, 1, immediate,
      mutateStudentPerformance(state, classId, spId, "deleteLastMissingHomework", 1))

deleteLastMissingHomeworkResponse ==
  \E r \in Pending : \E resp \in MutationResponses(r) :
    MutationResponse("deleteLastMissingHomework", r, resp, replaceRequest(state, r, resp))

----------------------------------------------------------------------------
(* fetchSchools *)

School(id, name) == [id |-> id, name |-> name]

\* Bodies of GET /schools: none, one, several in an order that is not the
\* order of their ids, and two entries under one id.
SchoolLists ==
  { <<>>,
    <<School(1, "A")>>,
    <<School(2, "B"), School(1, "A")>>,
    <<School(3, "C"), School(1, "A"), School(2, "B")>>,
    <<School(1, "A"), School(1, "A2")>> }

SchoolsResponses ==
  { Success(Some(l)) : l \in SchoolLists } \cup {Success(Undefined)} \cup FailureResponses

FetchSchoolsRequest == Request("fetchSchools", 0, "none")

\* schools.forEach(school => { order.push(school.id) })
SchoolOrder(list) == [i \in DOMAIN list |-> list[i].id]

\* fetchSchools keeping the entries it already had.
fetchSchoolsRequest_merge(s, resp) ==
  IF ~resp.ok THEN Threw(s, Val(resp.error))
  ELSE IF ~IsDefined(resp.data) THEN Returned(s)
  ELSE Returned([s EXCEPT !.schools =
         [order |-> Some(SchoolOrder(Val(resp.data))),
          entries |-> Some(PutAll(IF IsDefined(s.schools.entries)
                                  THEN Val(s.schools.entries) ELSE <<>>,
                                  Val(resp.data))),
          isLoading |-> Some(FALSE)]])

\* The request function fetchSchools hands to the guard, from the response
\* on: if (!response.data) return; build order and entries, set both.
fetchSchoolsRequest(s, resp) ==
  IF ~resp.ok THEN Threw(s, Val(resp.error))
  ELSE IF ~IsDefined(resp.data) THEN Returned(s)
  ELSE Returned([s EXCEPT !.schools =
         [order |-> Some(SchoolOrder(Val(resp.data))),
          entries |-> Some(PutAll(<<>>, Val(resp.data))),
          isLoading |-> Some(FALSE)]])

\* catch (e) { console.error(...); state.schools.isLoading = false }
fetchSchoolsCatch(r) ==
  IF r.threw THEN Returned([r.state EXCEPT !.schools.isLoading = Some(FALSE)]) ELSE r

\* fetchSchools up to its await: schools.isLoading = true, GET /schools.
fetchSchools ==
  /\ Idle /\ CanIssue
  /\ state' = [state EXCEPT !.schools.isLoading = Some(TRUE)]
  /\ inflight' = inflight (+) One(FetchSchoolsRequest)
  /\ last' = Observation("fetchSchools", Some(FetchSchoolsRequest), Undefined, Undefined,
                         Undefined, state, state')
  /\ UNCHANGED <<header, continuation>>

fetchSchoolsResponse ==
  \E r \in Pending, resp \in SchoolsResponses :
    /\ Idle
    /\ r.op = "fetchSchools"
    /\ LET g == guardUnauthorizedRequest(fetchSchoolsRequest(state, resp))
           f == fetchSchoolsCatch(g)
       IN /\ state' = f.state
          /\ inflight' = inflight (-) One(r)
          /\ last' = Observation("fetchSchoolsResponse", Some(r), Some(resp),
                                 Settled("fetchSchools", f, Undefined), g.error,
                                 state, f.state)
    /\ UNCHANGED <<header, continuation>>

----------------------------------------------------------------------------
(* addActivityScore of the optimistic revision.  The interface declares an *)
(* optional `immediate`; the implementation takes (classId,                *)
(* studentPerformanceId, score) and appends the entry of the response.     *)

Scores == {9}

\* The entry the server creates for a posted score.
NewActivityScore(score) == ActivityScore(4, score)

AddActivityScoreRequest(classId, spId) ==
  [op |-> "addActivityScore", classId |-> classId, spId |-> spId, immediate |-> FALSE,
   parent |-> "none"]

\* Bodies of POST .../activityScores.
ActivityScoreResponses ==
  { Success(Some(NewActivityScore(score))) : score \in Scores }
    \cup {Success(Undefined)} \cup FailureResponses

\* Every cached list of scores has room for one more entry.
ScoresInBounds(s) ==
  \A k \in DOMAIN s.classes :
    IsDefined(s.classes[k].studentsPerformance) =>
      \A i \in DOMAIN Val(s.classes[k].studentsPerformance) :
        LET sp == Val(s.classes[k].studentsPerformance)[i]
        IN IsDefined(sp.activityScores) => Len(Val(sp.activityScores)) < MaxScores

\* addActivityScore up to its await: the request, whatever `immediate` the
\* caller passed.
addActivityScore(immediate) ==
  \E classId \in ClassIds, spId \in SpIds, score \in Scores :
    LET r == AddActivityScoreRequest(classId, spId)
    IN /\ Idle /\ CanIssue
       /\ ScoresInBounds(state)
       /\ inflight' = inflight (+) One(r)
       /\ last' = [Observation("addActivityScore", Some(r), Undefined, Undefined,
                               Undefined, state, state)
                     EXCEPT !.args = Args(classId, spId, score, immediate)]
       /\ UNCHANGED <<state, header, continuation>>

\* if (!response.data) return; set(produce(... if (!response.data || !sp)
\* return; sp.activityScores = ... ))
addActivityScoreRequest(s, r, resp) ==
  IF ~resp.ok THEN Threw(s, Val(resp.error))
  ELSE IF ~IsDefined(resp.data) THEN Returned(s)
  ELSE mutateStudentPerformance(s, r.classId, r.spId, "appendActivityScore", Val(resp.data))

addActivityScoreResponse ==
  \E r \in Pending : \E resp \in ActivityScoreResponses :
    MutationResponse("addActivityScore", r, resp, addActivityScoreRequest(state, r, resp))

----------------------------------------------------------------------------
(* The structural actions: deleteStudentFromClass, addStudentToClass,      *)
(* deleteClass, addClass.  Each issues its own request and, in the task    *)
(* that handles a success, calls fetchById(classId) or fetch() without     *)
(* awaiting it.                                                            *)

\* A failure whose body carries a message: e.response.data.message.
HttpErrorWith(status, message) == Error("AxiosError", Some(status), Some(message))

Messages == {"duplicate label", ""}

\* The responses of the structural endpoints; the code reads no body of a
\* success.
StructuralResponses ==
  {Success(Undefined)} \cup FailureResponses
    \cup { Failure(HttpErrorWith(400, m)) : m \in Messages }
    \cup { Failure(HttpErrorWith(500, "duplicate label")) }

DeleteStudentFromClassRequest(classId) == Request("deleteStudentFromClass", classId, "none")
AddStudentToClassRequest(classId) == Request("addStudentToClass", classId, "none")
DeleteClassRequest == Request("deleteClass", 0, "none")
AddClassRequest == Request("addClass", 0, "none")

\* A structural action up to its await: the request, and no change of state.
StructuralCall(op, r) ==
  /\ Idle /\ CanIssue
  /\ inflight' = inflight (+) One(r)
  /\ last' = Observation(op, Some(r), Undefined, Undefined, Undefined, state, state)
  /\ UNCHANGED <<state, header, continuation>>

\* await axios...; get().fetchById(classId): the call of fetchById runs up
\* to its first await within this task.
refetchByIdRequest(s, resp) ==
  IF ~resp.ok THEN Threw(s, Val(resp.error))
  ELSE Returned([s EXCEPT !.isLoading = TRUE])

\* await axios.delete(...); get().fetch()
deleteClassRequest(s, resp) ==
  IF ~resp.ok THEN Threw(s, Val(resp.error))
  ELSE Returned(fetchCall(s))

\* addClass keeping the message of an earlier rejection when it succeeds.
addClassRequest_keep(s, resp) ==
  IF ~resp.ok THEN Threw(s, Val(resp.error))
  ELSE Returned(fetchCall(s))

\* await axios.post(...); state.error = undefined; get().fetch()
addClassRequest(s, resp) ==
  IF ~resp.ok THEN Threw(s, Val(resp.error))
  ELSE Returned(fetchCall([s EXCEPT !.error = Undefined]))

\* addClass without its try/catch.
addClassCatch_none(r) == r

\* catch (e) { if (e?.name === 'AxiosError' && e?.response?.status === 400) {
\*   const error = e.response?.data?.message; if (error) state.error = error } }
addClassCatch(r) ==
  IF ~r.threw THEN r
  ELSE LET e == Val(r.error)
       IN IF e.name = "AxiosError" /\ e.status = Some(400)
             /\ IsDefined(e.message) /\ Val(e.message) # ""
          THEN Returned([r.state EXCEPT !.error = e.message])
          ELSE Returned(r.state)

\* The re-fetch issued whether or not the action's request succeeded.
Refetch_always(result, request) == One(request)

\* The request the un-awaited fetchById(classId) or fetch() issues: none
\* when the action's own request failed.
Refetch(result, request) == IF result.threw THEN EmptyBag ELSE One(request)

\* The handling of a structural action's response.  `guarded` is the
\* request function under the guard, `result` what the action's promise
\* sees.
StructuralResponse(op, r, resp, guarded, result, request) ==
  /\ Idle
  /\ r.op = op
  /\ state' = result.state
  /\ inflight' = (inflight (-) One(r)) (+) Refetch(guarded, request)
  /\ last' = Observation(op \o "Response", Some(r), Some(resp),
                         Settled(op, result, Undefined), guarded.error, state, result.state)
  /\ UNCHANGED <<header, continuation>>

deleteStudentFromClass ==
  \E classId \in ClassIds :
    StructuralCall("deleteStudentFromClass", DeleteStudentFromClassRequest(classId))

deleteStudentFromClassResponse ==
  \E r \in Pending, resp \in StructuralResponses :
    LET g == guardUnauthorizedRequest(refetchByIdRequest(state, resp))
    IN StructuralResponse("deleteStudentFromClass", r, resp, g, g,
                          fetchByIdFirstRequest(state, r.classId))

addStudentToClass ==
  \E classId \in ClassIds :
    StructuralCall("addStudentToClass", AddStudentToClassRequest(classId))

addStudentToClassResponse ==
  \E r \in Pending, resp \in StructuralResponses :
    LET g == guardUnauthorizedRequest(refetchByIdRequest(state, resp))
    IN StructuralResponse("addStudentToClass", r, resp, g, g,
                          fetchByIdFirstRequest(state, r.classId))

deleteClass == StructuralCall("deleteClass", DeleteClassRequest)

deleteClassResponse ==
  \E r \in Pending, resp \in StructuralResponses :
    LET g == guardUnauthorizedRequest(deleteClassRequest(state, resp))
    IN StructuralResponse("deleteClass", r, resp, g, g, FetchRequest)

addClass == StructuralCall("addClass", AddClassRequest)

addClassResponse ==
  \E r \in Pending, resp \in StructuralResponses :
    LET g == guardUnauthorizedRequest(addClassRequest(state, resp))
    IN StructuralResponse("addClass", r, resp, g, addClassCatch(g), FetchRequest)

----------------------------------------------------------------------------
(* The store after create(...) *)

InitialState ==
  [isAuthenticated |-> Undefined,
   authToken |-> Undefined,
   classes |-> <<>>,
   isLoading |-> FALSE,
   isInitialized |-> FALSE,
   error |-> Undefined,
   schools |-> [entries |-> Undefined, order |-> Undefined, isLoading |-> Undefined],
   isOperationLoading |-> Undefined]

Init ==
  /\ state = InitialState
  /\ header = "undefined"
  /\ inflight = EmptyBag
  /\ continuation = Undefined
  /\ last = Observation("create", Undefined, Undefined, Undefined, Undefined,
                        InitialState, InitialState)

Next ==
  \/ fetch
  \/ fetchResponse
  \/ fetchById
  \/ fetchByIdContinue
  \/ fetchByIdResponse
  \/ login
  \/ loginResponse
  \/ logout
  \/ updateToken

Spec == Init /\ [][Next]_vars

\* The store under its optimistic mutations (immediate left at its default,
\* true) and full fetches, a call being made while fewer than
\* MaxOptimisticInFlight requests await their response.
CanCall == BagCardinality(inflight) < MaxOptimisticInFlight

NextOptimistic ==
  \/ CanCall /\ fetch
  \/ fetchResponse
  \/ CanCall /\ deleteActivityScore(TRUE)
  \/ deleteActivityScoreResponse
  \/ CanCall /\ addActivityPoints(TRUE)
  \/ addActivityPointsResponse
  \/ CanCall /\ addLoudnessWarning(TRUE)
  \/ addLoudnessWarningResponse
  \/ CanCall /\ deleteLastLoudnessWarning(TRUE)
  \/ deleteLastLoudnessWarningResponse
  \/ CanCall /\ addMissingHomework(TRUE)
  \/ addMissingHomeworkResponse
  \/ CanCall /\ deleteLastMissingHomework(TRUE)
  \/ deleteLastMissingHomeworkResponse

SpecOptimistic == Init /\ [][NextOptimistic]_vars

\* The store under its structural actions and the fetches they trigger.
NextStructural ==
  \/ CanCall /\ fetch
  \/ fetchResponse
  \/ CanCall /\ fetchById
  \/ fetchByIdContinue
  \/ fetchByIdResponse
  \/ CanCall /\ deleteStudentFromClass
  \/ deleteStudentFromClassResponse
  \/ CanCall /\ addStudentToClass
  \/ addStudentToClassResponse
  \/ CanCall /\ deleteClass
  \/ deleteClassResponse
  \/ CanCall /\ addClass
  \/ addClassResponse

SpecStructural == Init /\ [][NextStructural]_vars

\* The store under fetchSchools.
NextSchools ==
  \/ fetchSchools
  \/ fetchSchoolsResponse

SpecSchools == Init /\ [][NextSchools]_vars

\* The store under overlapping mutations that store the class of their
\* response (immediate = false).
NextConcurrentReplace ==
  \/ deleteActivityScore(FALSE)
  \/ deleteActivityScoreResponse
  \/ addActivityPoints(FALSE)
  \/ addActivityPointsResponse

SpecConcurrentReplace == Init /\ [][NextConcurrentReplace]_vars

\* The optimistic revision under overlapping addActivityPoints calls and
\* full fetches.
NextConcurrentPoints ==
  \/ fetch
  \/ fetchResponse
  \/ addActivityPoints(TRUE)
  \/ addActivityPointsResponse

SpecConcurrentPoints == Init /\ [][NextConcurrentPoints]_vars

\* The optimistic revision under addActivityScore and full fetches.
NextActivityScores ==
  \/ CanCall /\ fetch
  \/ fetchResponse
  \/ CanCall /\ addActivityScore(TRUE)
  \/ addActivityScoreResponse

SpecActivityScores == Init /\ [][NextActivityScores]_vars

\* The store under its mutations called with immediate = false, one at a
\* time: each call is made when no request awaits its response (overlapping
\* calls are the subject of SpecConcurrentReplace).  Their responses fill
\* the class cache.
NoneInFlight == inflight = EmptyBag

NextAuthoritative ==
  \/ NoneInFlight /\ deleteActivityScore(FALSE)
  \/ deleteActivityScoreResponse
  \/ NoneInFlight /\ addActivityPoints(FALSE)
  \/ addActivityPointsResponse
  \/ NoneInFlight /\ addLoudnessWarning(FALSE)
  \/ addLoudnessWarningResponse
  \/ NoneInFlight /\ deleteLastLoudnessWarning(FALSE)
  \/ deleteLastLoudnessWarningResponse
  \/ NoneInFlight /\ addMissingHomework(FALSE)
  \/ addMissingHomeworkResponse
  \/ NoneInFlight /\ deleteLastMissingHomework(FALSE)
  \/ deleteLastMissingHomeworkResponse

SpecAuthoritative == Init /\ [][NextAuthoritative]_vars

\* The store under its session actions, its fetches and a mutation.
NextSession ==
  \/ CanCall /\ fetch
  \/ fetchResponse
  \/ CanCall /\ fetchById
  \/ fetchByIdContinue
  \/ fetchByIdResponse
  \/ CanCall /\ login
  \/ loginResponse
  \/ logout
  \/ updateToken
  \/ CanCall /\ deleteActivityScore(FALSE)
  \/ deleteActivityScoreResponse

SpecSession == Init /\ [][NextSession]_vars

----------------------------------------------------------------------------
(* Properties *)

\* The response the last task handled, and the error it carried.
LastResponse == Val(last.resp)
LastRequest == Val(last.req)

Ids(list) == { list[i].id : i \in DOMAIN list }

\* C1: after a fetch() whose GET /classes succeeds with classes c1..cn, the
\* keys of the class cache are exactly the ids c1.id..cn.id, every key maps
\* to the returned class of that id, isInitialized is true and isLoading is
\* false.
C1_FetchReplacesCache ==
  [][ (/\ last'.act = "fetchResponse"
       /\ Val(last'.resp).ok
       /\ IsDefined(Val(last'.resp).data))
      => LET list == Val(Val(last'.resp).data)
         IN /\ DOMAIN state'.classes = Ids(list)
            /\ \A k \in Ids(list) :
                 \E i \in DOMAIN list : list[i].id = k /\ state'.classes[k] = list[i]
            /\ state'.isInitialized
            /\ ~state'.isLoading ]_vars

\* A successful fetch returned class 2 alone and evicted the cached class 1.
C1_Witness ==
  /\ last.act = "fetchResponse"
  /\ LastResponse = Success(Some(<<Class2>>))
  /\ last.removed = {1}
  /\ DOMAIN state.classes = {2}
  /\ state.classes[2] = Class2

\* C2: when the GET /classes of fetch() fails, fetch leaves the class cache
\* and isInitialized as they were (in its call and in its handling of the
\* failure), isLoading is false once it completes, and fetch() resolves.
C2_FetchFailureLeavesCache ==
  [][ /\ last'.act = "fetch"
        => /\ state'.classes = state.classes
           /\ state'.isInitialized = state.isInitialized
      /\ (last'.act = "fetchResponse" /\ ~Val(last'.resp).ok)
        => /\ state'.classes = state.classes
           /\ state'.isInitialized = state.isInitialized
           /\ ~state'.isLoading
           /\ last'.settled = Some([op |-> "fetch", how |-> "resolved", value |-> Undefined]) ]_vars

\* A fetch failed with 401 on an initialized store holding both classes.
C2_Witness ==
  /\ last.act = "fetchResponse"
  /\ LastResponse = Failure(HttpError(401))
  /\ DOMAIN state.classes = {1, 2}
  /\ state.isInitialized
  /\ ~state.isLoading
  /\ Val(last.settled).how = "resolved"

\* C3: fetchById(id) on an uninitialized store issues exactly one GET
\* /classes and no by-id request in its call, and its GET /classes/{id} is
\* issued only once that full fetch has completed, with no further full
\* fetch; on an initialized store the call issues the by-id request alone.
C3_FetchByIdAwaitsOneFetch ==
  [][ /\ (last'.act = "fetchById" /\ ~state.isInitialized)
        => \E id \in ClassIds : inflight' = inflight (+) One(AwaitedFetchRequest(id))
      /\ (last'.act = "fetchById" /\ state.isInitialized)
        => \E id \in ClassIds : inflight' = inflight (+) One(FetchByIdRequest(id))
      /\ \A id \in ClassIds :
           CopiesIn(FetchByIdRequest(id), inflight') > CopiesIn(FetchByIdRequest(id), inflight)
           => /\ inflight' = inflight (+) One(FetchByIdRequest(id))
              /\ \/ last'.act = "fetchById" /\ state.isInitialized
                 \/ /\ last'.act = "fetchByIdContinue"
                    /\ last.act = "fetchResponse"
                    /\ LastRequest = AwaitedFetchRequest(id) ]_vars

\* The full fetch awaited by fetchById(2) failed, and fetchById then issued
\* its by-id request on the still uninitialized store.
C3_Witness ==
  /\ last.act = "fetchByIdContinue"
  /\ LastRequest = AwaitedFetchRequest(2)
  /\ ~LastResponse.ok
  /\ ~state.isInitialized
  /\ CopiesIn(FetchByIdRequest(2), inflight) = 1

\* The StudentPerformance list of a cached class, and the record a call
\* targets in state s (0 when the class has no record of that id).
Performances(s, classId) == Val(s.classes[classId].studentsPerformance)

HasPerformances(s, classId) ==
  classId \in DOMAIN s.classes /\ IsDefined(s.classes[classId].studentsPerformance)

Target(s, a) ==
  IF HasPerformances(s, a.classId) THEN FindIndex(Performances(s, a.classId), a.spId) ELSE 0

\* C4: addActivityPoints(classId, spId, d) with immediate = true on a cached
\* record whose activityPoints is n leaves, with its request still in
\* flight, activityPoints = n + d and nothing else changed.
C4_AddActivityPointsImmediate ==
  [][ (/\ last'.act = "addActivityPoints"
       /\ Val(last'.args).immediate
       /\ Target(state, Val(last'.args)) # 0
       /\ IsDefined(Performances(state, Val(last'.args).classId)
                      [Target(state, Val(last'.args))].activityPoints))
      => LET a == Val(last'.args)
             i == Target(state, a)
             sps == Performances(state, a.classId)
             n == Val(sps[i].activityPoints)
         IN /\ state' = [state EXCEPT !.classes[a.classId].studentsPerformance =
                           Some([sps EXCEPT ![i].activityPoints = Some(n + a.value)])]
            /\ header' = header
            /\ last'.resp = Undefined
            /\ BagCardinality(inflight') = BagCardinality(inflight) + 1 ]_vars

\* addActivityPoints(1, 1, 2) took the activity points of record 1 of class
\* 1 from the server's 2 to 4, and its request is in flight.
C4_Witness ==
  /\ last.act = "addActivityPoints"
  /\ last.args = Args(1, 1, 2, TRUE)
  /\ 1 \in DOMAIN state.classes
  /\ state.classes[1] =
       [Class1 EXCEPT !.studentsPerformance =
          Some([Val(Class1.studentsPerformance) EXCEPT ![1].activityPoints = Some(4)])]
  /\ last.req \in { Some(r) : r \in Pending }

Counters == {"activityPoints", "missingHomeworks", "loudnessWarnings"}

CounterActions ==
  {"addActivityPoints", "addMissingHomework", "deleteLastMissingHomework",
   "addLoudnessWarning", "deleteLastLoudnessWarning"}

CounterResponses == { op \o "Response" : op \in CounterActions }

\* C5: no counter action with immediate = true, in its call or in the
\* handling of its response, defines a counter that was undefined.
C5_NoMaterialization ==
  [][ (\/ last'.act \in CounterActions /\ Val(last'.args).immediate
       \/ last'.act \in CounterResponses /\ Val(last'.req).immediate)
      => \A k \in DOMAIN state.classes :
           IsDefined(state.classes[k].studentsPerformance) =>
             /\ HasPerformances(state', k)
             /\ DOMAIN Performances(state', k) = DOMAIN Performances(state, k)
             /\ \A i \in DOMAIN Performances(state, k), c \in Counters :
                  ~IsDefined(Performances(state, k)[i][c])
                    => ~IsDefined(Performances(state', k)[i][c]) ]_vars

\* addMissingHomework(1, 2, 2) ran on record 2 of class 1, whose
\* missingHomeworks is undefined and still is, and its request is in flight.
C5_Witness ==
  /\ last.act = "addMissingHomework"
  /\ last.args = Args(1, 2, 2, TRUE)
  /\ HasPerformances(state, 1)
  /\ Performances(state, 1)[2].id = 2
  /\ ~IsDefined(Performances(state, 1)[2].missingHomeworks)
  /\ last.req \in { Some(r) : r \in Pending }

\* The entries of list whose id is not the given one, in their order: the
\* j-th is the entry at the j-th smallest kept position.
Kept(list, id) == { i \in DOMAIN list : list[i].id # id }

IsListWithout(new, list, id) ==
  /\ Len(new) = Cardinality(Kept(list, id))
  /\ \A j \in DOMAIN new :
       \E i \in Kept(list, id) :
         /\ Cardinality({ m \in Kept(list, id) : m < i }) = j - 1
         /\ new[j] = list[i]

\* C6: deleteActivityScore(classId, spId, id) with immediate = true on a
\* record whose score list holds an entry of that id leaves the list
\* without the entries of that id, the others in their order, and nothing
\* else changed.
C6_DeleteActivityScoreImmediate ==
  [][ (/\ last'.act = "deleteActivityScore"
       /\ Val(last'.args).immediate
       /\ Target(state, Val(last'.args)) # 0
       /\ IsDefined(Performances(state, Val(last'.args).classId)
                      [Target(state, Val(last'.args))].activityScores)
       /\ \E e \in DOMAIN Val(Performances(state, Val(last'.args).classId)
                                [Target(state, Val(last'.args))].activityScores) :
            Val(Performances(state, Val(last'.args).classId)
                  [Target(state, Val(last'.args))].activityScores)[e].id
              = Val(last'.args).value)
      => LET a == Val(last'.args)
             i == Target(state, a)
             sps == Performances(state, a.classId)
             old == Val(sps[i].activityScores)
         IN /\ HasPerformances(state', a.classId)
            /\ IsDefined(Performances(state', a.classId)[i].activityScores)
            /\ IsListWithout(Val(Performances(state', a.classId)[i].activityScores),
                             old, a.value)
            /\ state' = [state EXCEPT !.classes[a.classId].studentsPerformance =
                           Some([sps EXCEPT ![i].activityScores =
                                   Performances(state', a.classId)[i].activityScores])]
            /\ header' = header ]_vars

\* deleteActivityScore(1, 1, 2) removed the middle score of record 1 of
\* class 1 and kept the two others in order.
C6_Witness ==
  /\ last.act = "deleteActivityScore"
  /\ last.args = Args(1, 1, 2, TRUE)
  /\ HasPerformances(state, 1)
  /\ Performances(state, 1)[1].activityScores =
       Some(<<ActivityScore(1, 5), ActivityScore(3, 5)>>)
  /\ Performances(state, 1)[1].activityPoints = Some(2)
  /\ Performances(state, 1)[2] = Val(Class1.studentsPerformance)[2]

\* The tasks that handle the response of a request run through the guard.
GuardedResponses == {"fetchResponse", "fetchByIdResponse"}

\* C7: for a request run through guardUnauthorizedRequest, a failure with
\* status 401 sets isAuthenticated to false, any other failure leaves it
\* unchanged, the caller sees the same failure re-raised, and a success
\* changes no authentication state.
C7_GuardDemotesOn401Only ==
  [][ last'.act \in GuardedResponses
      => LET resp == Val(last'.resp)
         IN /\ (~resp.ok /\ Val(resp.error).status = Some(401))
                => state'.isAuthenticated = Some(FALSE)
            /\ (~resp.ok /\ Val(resp.error).status # Some(401))
                => state'.isAuthenticated = state.isAuthenticated
            /\ ~resp.ok => last'.caught = resp.error
            /\ resp.ok => /\ state'.isAuthenticated = state.isAuthenticated
                          /\ state'.authToken = state.authToken
                          /\ header' = header ]_vars

\* A by-id request failed with 401 under a session holding a token.
C7_Witness ==
  /\ last.act = "fetchByIdResponse"
  /\ LastResponse = Failure(HttpError(401))
  /\ last.caught = Some(HttpError(401))
  /\ state.isAuthenticated = Some(FALSE)
  /\ header = "Bearer t1"

\* C8: isAuthenticated is true exactly when authToken is defined.
C8_TokenAndFlagTogether ==
  (state.isAuthenticated = Some(TRUE)) <=> IsDefined(state.authToken)

\* C9: a login whose POST /auth/login succeeds with access token t resolves
\* to t and leaves isAuthenticated true, authToken t and the Authorization
\* header 'Bearer t'.
C9_LoginSuccess ==
  [][ (/\ last'.act = "loginResponse"
       /\ Val(last'.resp).ok
       /\ IsDefined(Val(last'.resp).data))
      => LET t == Val(Val(last'.resp).data).access_token
         IN /\ last'.settled = Some([op |-> "login", how |-> "resolved", value |-> Some(t)])
            /\ state'.isAuthenticated = Some(TRUE)
            /\ state'.authToken = Some(t)
            /\ header' = IF t = "t1" THEN "Bearer t1" ELSE "Bearer t2" ]_vars

\* A login succeeded with token t2 over a session that held t1.
C9_Witness ==
  /\ last.act = "loginResponse"
  /\ LastResponse = Success(Some([access_token |-> "t2"]))
  /\ Val(last.settled).value = Some("t2")
  /\ state.authToken = Some("t2")
  /\ state.isAuthenticated = Some(TRUE)
  /\ header = "Bearer t2"

\* C10: a login whose request fails resolves to null and leaves
\* isAuthenticated, authToken and the Authorization header as they were.
C10_LoginFailure ==
  [][ (last'.act = "loginResponse" /\ ~Val(last'.resp).ok)
      => /\ last'.settled = Some([op |-> "login", how |-> "resolved", value |-> Some("null")])
         /\ state'.isAuthenticated = state.isAuthenticated
         /\ state'.authToken = state.authToken
         /\ header' = header ]_vars

\* A login failed with 401 and the session it found is still authenticated.
C10_Witness ==
  /\ last.act = "loginResponse"
  /\ LastResponse = Failure(HttpError(401))
  /\ Val(last.settled).value = Some("null")
  /\ state.isAuthenticated = Some(TRUE)
  /\ state.authToken = Some("t1")
  /\ header = "Bearer t1"

\* C11: an addClass whose POST /classes is rejected with status 400 and a
\* body carrying a non-empty message m sets the error slot to m, leaves the
\* class cache unchanged, issues no re-fetch, and resolves.
C11_AddClassRejectedSetsError ==
  [][ (/\ last'.act = "addClassResponse"
       /\ ~Val(last'.resp).ok
       /\ Val(Val(last'.resp).error).status = Some(400)
       /\ IsDefined(Val(Val(last'.resp).error).message)
       /\ Val(Val(Val(last'.resp).error).message) # "")
      => /\ state'.error = Val(Val(last'.resp).error).message
         /\ state'.classes = state.classes
         /\ inflight' = inflight (-) One(Val(last'.req))
         /\ last'.settled =
              Some([op |-> "addClass", how |-> "resolved", value |-> Undefined]) ]_vars

\* An addClass was rejected with 400 "duplicate label" on a store that
\* caches both classes: the error slot holds the message, nothing is in
\* flight.
C11_Witness ==
  /\ last.act = "addClassResponse"
  /\ LastResponse = Failure(HttpErrorWith(400, "duplicate label"))
  /\ state.error = Some("duplicate label")
  /\ DOMAIN state.classes = {1, 2}
  /\ inflight = EmptyBag
  /\ Val(last.settled).how = "resolved"

StructuralActions ==
  {"deleteStudentFromClass", "addStudentToClass", "deleteClass", "addClass"}

StructuralResponseActions == { op \o "Response" : op \in StructuralActions }

\* The re-fetch a structural action asks for: fetchById(classId), which
\* starts with the full fetch on an uninitialized store, or fetch().
RefetchOf(s, r) ==
  IF r.op \in {"deleteStudentFromClass", "addStudentToClass"}
  THEN IF s.isInitialized THEN FetchByIdRequest(r.classId) ELSE AwaitedFetchRequest(r.classId)
  ELSE FetchRequest

\* C19: a structural action changes no state in its call and issues its own
\* request alone; the task that handles its response leaves the class cache
\* unchanged and issues the re-fetch exactly when the request succeeded;
\* the class cache changes only in a task that applies the response of a
\* fetch or of a fetchById.
C19_StructuralActionsRefetch ==
  [][ /\ last'.act \in StructuralActions
        => /\ state' = state
           /\ Val(last'.req).op = last'.act
           /\ inflight' = inflight (+) One(Val(last'.req))
      /\ last'.act \in StructuralResponseActions
        => /\ state'.classes = state.classes
           /\ inflight' =
                IF Val(last'.resp).ok
                THEN (inflight (-) One(Val(last'.req))) (+) One(RefetchOf(state, Val(last'.req)))
                ELSE inflight (-) One(Val(last'.req))
      /\ state'.classes # state.classes
        => last'.act \in {"fetchResponse", "fetchByIdResponse"} ]_vars

\* deleteStudentFromClass(1, ..) succeeded on an initialized store that
\* caches class 1: the cache still holds the class as fetched and the
\* by-id re-fetch of class 1 is the one request in flight.
C19_Witness ==
  /\ last.act = "deleteStudentFromClassResponse"
  /\ LastResponse.ok
  /\ state.isInitialized
  /\ DOMAIN state.classes = {1}
  /\ state.classes[1] = Class1
  /\ inflight = One(FetchByIdRequest(1))

\* C12: isInitialized is false in the initial state, turns true only in the
\* task that applies a successful response of a full fetch, and once true
\* is true in every later state.
C12_IsInitializedMonotone ==
  /\ ~state.isInitialized
  /\ [][ /\ state.isInitialized => state'.isInitialized
         /\ (~state.isInitialized /\ state'.isInitialized)
              => /\ last'.act = "fetchResponse"
                 /\ Val(last'.resp).ok
                 /\ IsDefined(Val(last'.resp).data) ]_vars

\* A logout on an initialized store: isInitialized is still true and the
\* fetched classes are still cached.
C12_Witness ==
  /\ last.act = "logout"
  /\ state.isInitialized
  /\ state.isAuthenticated = Some(FALSE)
  /\ DOMAIN state.classes = {1, 2}
  /\ header = logoutHeader

MutationActions ==
  {"deleteActivityScore", "addActivityPoints", "addMissingHomework",
   "deleteLastMissingHomework", "addLoudnessWarning", "deleteLastLoudnessWarning"}

MutationResponseActions == { op \o "Response" : op \in MutationActions }

\* C13: the task that handles the response of a mutation called with
\* immediate = true leaves the class cache as it was just before, whether
\* the request failed or succeeded and whatever the body.
C13_ImmediateResponseKeepsCache ==
  [][ (last'.act \in MutationResponseActions /\ Val(last'.req).immediate)
      => state'.classes = state.classes ]_vars

\* The request of an immediate deleteActivityScore failed with status 500
\* and the cached list is still the one without the deleted score.
C13_Witness ==
  /\ last.act = "deleteActivityScoreResponse"
  /\ LastRequest.immediate
  /\ LastResponse = Failure(HttpError(500))
  /\ HasPerformances(state, 1)
  /\ Performances(state, 1)[1].activityScores =
       Some(<<ActivityScore(1, 5), ActivityScore(2, 7)>>)
  /\ Val(last.settled).how = "rejected"

\* The cache after `sp.missingHomeworks = n` on the record the request
\* names, when the class is cached and holds that record.
WithMissingHomeworks(s, r, n) ==
  IF Target(s, r) = 0 THEN s.classes
  ELSE [s.classes EXCEPT ![r.classId].studentsPerformance =
          Some([Performances(s, r.classId) EXCEPT ![Target(s, r)].missingHomeworks = Some(n)])]

\* C14: a mutation called with immediate = false changes no state in its
\* call and issues its request; the task that handles its response leaves
\* the class cache unchanged when the request failed or the body is falsy,
\* and otherwise changes it from the body alone: the class of the body
\* stored under classId, or for addMissingHomework the body stored as the
\* record's missingHomeworks.
C14_NonImmediateFromResponseOnly ==
  [][ /\ (last'.act \in MutationActions /\ ~Val(last'.args).immediate)
        => /\ state' = state
           /\ IsDefined(last'.req)
           /\ inflight' = inflight (+) One(Val(last'.req))
      /\ (/\ last'.act \in MutationResponseActions
          /\ ~Val(last'.req).immediate
          /\ ~Val(last'.resp).ok \/ ~IsDefined(Val(last'.resp).data))
        => state'.classes = state.classes
      /\ (/\ last'.act \in MutationResponseActions \ {"addMissingHomeworkResponse"}
          /\ ~Val(last'.req).immediate
          /\ Val(last'.resp).ok /\ IsDefined(Val(last'.resp).data))
        => state'.classes =
             Put(state.classes, Val(last'.req).classId, Val(Val(last'.resp).data))
      /\ (/\ last'.act = "addMissingHomeworkResponse"
          /\ ~Val(last'.req).immediate
          /\ Val(last'.resp).ok /\ IsDefined(Val(last'.resp).data))
        => state'.classes =
             IF Val(Val(last'.resp).data) = 0 THEN state.classes
             ELSE WithMissingHomeworks(state, Val(last'.req), Val(Val(last'.resp).data)) ]_vars

\* deleteLastMissingHomework(1, .., false) succeeded with class 1 in its
\* other server state as body: the cache holds that body under 1.
C14_Witness ==
  /\ last.act = "deleteLastMissingHomeworkResponse"
  /\ ~LastRequest.immediate
  /\ LastRequest.classId = 1
  /\ LastResponse = Success(Some(Class1Alt))
  /\ DOMAIN state.classes = {1, 2}
  /\ state.classes[1] = Class1Alt

\* The counter each delete-last action works on.
DeleteLastCounter(act) ==
  IF act = "deleteLastMissingHomework" THEN "missingHomeworks" ELSE "loudnessWarnings"

\* C15: a delete-last action called with immediate = true on a record whose
\* counter is n leaves the counter at n - 1 (deleteLastMissingHomework on
\* missingHomeworks, deleteLastLoudnessWarning on loudnessWarnings).
C15_DeleteLastDecrements ==
  [][ (/\ last'.act \in {"deleteLastMissingHomework", "deleteLastLoudnessWarning"}
       /\ Val(last'.args).immediate
       /\ Target(state, Val(last'.args)) # 0
       /\ IsDefined(Performances(state, Val(last'.args).classId)
                      [Target(state, Val(last'.args))][DeleteLastCounter(last'.act)]))
      => LET a == Val(last'.args)
             i == Target(state, a)
             c == DeleteLastCounter(last'.act)
         IN /\ HasPerformances(state', a.classId)
            /\ Performances(state', a.classId)[i][c] =
                 Some(Val(Performances(state, a.classId)[i][c]) - 1) ]_vars

\* The score list of a record, empty when the record has none.
ScoresOf(sp) == IF IsDefined(sp.activityScores) THEN Val(sp.activityScores) ELSE <<>>

\* C16: addActivityScore called with immediate = true on a cached record
\* leaves, with its request still in flight, the record's score list one
\* entry longer than it was.
C16_AddActivityScoreImmediate ==
  [][ (/\ last'.act = "addActivityScore"
       /\ Val(last'.args).immediate
       /\ Target(state, Val(last'.args)) # 0)
      => LET a == Val(last'.args)
             i == Target(state, a)
         IN /\ HasPerformances(state', a.classId)
            /\ Len(ScoresOf(Performances(state', a.classId)[i]))
                 = Len(ScoresOf(Performances(state, a.classId)[i])) + 1 ]_vars

\* The activityPoints of the record a call targets.
PointsOf(s, a) == Performances(s, a.classId)[Target(s, a)].activityPoints

\* C17: every addActivityPoints call with immediate = true on a record with
\* defined activityPoints adds its delta at once and issues its request,
\* also when the task before it was such a call on the same record whose
\* request is still in flight (n + d1, then n + d1 + d2, two requests in
\* flight); and the handling of each of their responses, a success or a
\* failure, in any order, leaves the class cache as the calls left it.
C17_ConcurrentAddActivityPoints ==
  [][ /\ (/\ last'.act = "addActivityPoints"
          /\ Val(last'.args).immediate
          /\ Target(state, Val(last'.args)) # 0
          /\ IsDefined(PointsOf(state, Val(last'.args))))
        => /\ PointsOf(state', Val(last'.args))
                = Some(Val(PointsOf(state, Val(last'.args))) + Val(last'.args).value)
           /\ inflight' = inflight (+) One(Val(last'.req))
      /\ (/\ last.act = "addActivityPoints"
          /\ last'.act = "addActivityPoints"
          /\ Val(last.args).immediate /\ Val(last'.args).immediate
          /\ Val(last.args).classId = Val(last'.args).classId
          /\ Val(last.args).spId = Val(last'.args).spId
          /\ IsDefined(last.req)
          /\ Target(state, Val(last'.args)) # 0
          /\ IsDefined(PointsOf(state, Val(last'.args))))
        => /\ CopiesIn(Val(last'.req), inflight') >= 2
           /\ PointsOf(state', Val(last'.args))
                = Some(Val(PointsOf(state, Val(last'.args))) + Val(last'.args).value)
      /\ (last'.act = "addActivityPointsResponse" /\ Val(last'.req).immediate)
        => state'.classes = state.classes ]_vars

\* addActivityPoints(1, 1, 2) and addActivityPoints(1, 1, -1) were called on
\* the server's 2 before either request resolved; one request has failed,
\* the other is the last to be answered, and the counter is 3.
C17_Witness ==
  /\ last.act = "addActivityPointsResponse"
  /\ LastRequest.immediate
  /\ ~LastResponse.ok
  /\ inflight = EmptyBag
  /\ HasPerformances(state, 1)
  /\ Performances(state, 1)[1] =
       [Val(Class1.studentsPerformance)[1] EXCEPT !.activityPoints = Some(3)]

\* The tasks that store the class of a response under its classId.
ReplaceResponseActions == MutationResponseActions \ {"addMissingHomeworkResponse"}

\* Obs records the response of a mutation called with immediate = false
\* that carries a class for the class id k.
IsReplaceOf(obs, k) ==
  /\ obs.act \in ReplaceResponseActions
  /\ ~Val(obs.req).immediate
  /\ Val(obs.req).classId = k
  /\ Val(obs.resp).ok
  /\ IsDefined(Val(obs.resp).data)

\* C18: each response that carries a class for a class id, of a mutation
\* called with immediate = false, leaves the cache entry of that id equal to
\* its body and the other entries as they were, whatever else is in flight
\* for that id and in whatever order the requests were issued; so of two
\* such responses processed one after the other the later one's body is the
\* entry.
C18_LastResponseWins ==
  [][ \A k \in ClassIds :
        /\ IsReplaceOf(last', k)
             => /\ DOMAIN state'.classes = (DOMAIN state.classes) \cup {k}
                /\ state'.classes[k] = Val(Val(last'.resp).data)
                /\ \A j \in (DOMAIN state.classes) \ {k} : state'.classes[j] = state.classes[j]
        /\ (IsReplaceOf(last, k) /\ IsReplaceOf(last', k))
             => state'.classes[k] = Val(Val(last'.resp).data) ]_vars

\* Two mutations of class 1 were in flight at once; the response of
\* addActivityPoints has just been stored while the request of
\* deleteActivityScore, for the same class, still awaits its response, and
\* the entry is the body just processed.
C18_Witness ==
  /\ IsReplaceOf(last, 1)
  /\ last.act = "addActivityPointsResponse"
  /\ LastResponse = Success(Some(Class1Alt))
  /\ inflight = One(MutationRequest("deleteActivityScore", 1, 1, FALSE))
  /\ state.classes[1] = Class1Alt

\* The last school of the list under the id k.
LastWithId(list, k) ==
  list[CHOOSE i \in DOMAIN list :
         list[i].id = k /\ \A j \in DOMAIN list : list[j].id = k => j <= i]

\* C20: the task that applies a successful fetchSchools response with
\* schools s1..sn leaves schools.order = [s1.id, .., sn.id] in the order of
\* the response and schools.entries mapping each of those ids to its
\* school; order and entries change in no other task, and only together;
\* in every state both are undefined or both are defined, and then the ids
\* in order are the keys of entries.
C20_SchoolsOrderAndEntries ==
  /\ [](/\ IsDefined(state.schools.order) <=> IsDefined(state.schools.entries)
        /\ IsDefined(state.schools.order)
             => /\ { Val(state.schools.order)[i] : i \in DOMAIN Val(state.schools.order) }
                     = DOMAIN Val(state.schools.entries)
                /\ \A k \in DOMAIN Val(state.schools.entries) :
                     Val(state.schools.entries)[k].id = k)
  /\ [][ /\ (/\ last'.act = "fetchSchoolsResponse"
             /\ Val(last'.resp).ok
             /\ IsDefined(Val(last'.resp).data))
           => LET list == Val(Val(last'.resp).data)
              IN /\ state'.schools.order = Some([i \in DOMAIN list |-> list[i].id])
                 /\ IsDefined(state'.schools.entries)
                 /\ DOMAIN Val(state'.schools.entries) = Ids(list)
                 /\ \A k \in Ids(list) :
                      Val(state'.schools.entries)[k] = LastWithId(list, k)
         /\ (\/ state'.schools.order # state.schools.order
             \/ state'.schools.entries # state.schools.entries)
           => /\ last'.act = "fetchSchoolsResponse"
              /\ Val(last'.resp).ok
              /\ IsDefined(Val(last'.resp).data) ]_vars

\* A fetchSchools returned schools 3, 1, 2 in that order over an earlier
\* result: order is [3, 1, 2] and entries holds the three schools.
C20_Witness ==
  /\ last.act = "fetchSchoolsResponse"
  /\ LastResponse.ok
  /\ state.schools.order = Some(<<3, 1, 2>>)
  /\ IsDefined(state.schools.entries)
  /\ DOMAIN Val(state.schools.entries) = {1, 2, 3}
  /\ Val(state.schools.entries)[3] = School(3, "C")
  /\ state.schools.isLoading = Some(FALSE)

\* The store under the actions that write the session fields, the error
\* slot, the schools cache and the class cache, called one at a time.
NextFrame ==
  \/ CanCall /\ fetch
  \/ fetchResponse
  \/ CanCall /\ fetchSchools
  \/ fetchSchoolsResponse
  \/ CanCall /\ addClass
  \/ addClassResponse
  \/ CanCall /\ deleteClass
  \/ deleteClassResponse
  \/ logout
  \/ updateToken

SpecFrame == Init /\ [][NextFrame]_vars

\* C21: logout() in any state leaves isAuthenticated = false, authToken
\* undefined and a default Authorization header that holds no bearer value,
\* and leaves the class cache, the schools cache, isInitialized, isLoading,
\* the error slot and the requests in flight as they were.
C21_LogoutFrame ==
  [][ last'.act = "logout"
      => /\ state'.isAuthenticated = Some(FALSE)
         /\ state'.authToken = Undefined
         /\ header' \notin { Bearer(t) : t \in Tokens }
         /\ state'.classes = state.classes
         /\ state'.schools = state.schools
         /\ state'.isInitialized = state.isInitialized
         /\ state'.isLoading = state.isLoading
         /\ state'.error = state.error
         /\ inflight' = inflight ]_vars

\* A logout of the session of token t1 while a request was in flight on an
\* initialized store: the classes are still cached, isLoading is still
\* true, and the header is the one logout sets.
C21_Witness ==
  /\ last.act = "logout"
  /\ state.isAuthenticated = Some(FALSE)
  /\ state.authToken = Undefined
  /\ header = "false"
  /\ state.isInitialized
  /\ state.isLoading
  /\ DOMAIN state.classes = {1, 2}
  /\ IsDefined(state.error)
  /\ state.schools.order # <<>>
  /\ inflight # EmptyBag

\* C22: the error slot changes only in the task that handles addClass's
\* response. There it becomes the message of a 400 response that carries a
\* non-empty message, becomes undefined when the create request succeeded
\* (whatever an earlier rejected addClass left), and keeps its value after
\* any other failure. No other action, succeeding or failing, changes it.
C22_ErrorOnlyInAddClass ==
  [][ /\ state'.error # state.error => last'.act = "addClassResponse"
      /\ last'.act = "addClassResponse"
         => LET resp == Val(last'.resp)
            IN IF resp.ok THEN state'.error = Undefined
               ELSE LET e == Val(resp.error)
                    IN IF /\ e.status = Some(400)
                          /\ IsDefined(e.message)
                          /\ Val(e.message) # ""
                       THEN state'.error = e.message
                       ELSE state'.error = state.error ]_vars

\* deleteClass was rejected with 400 and the message "duplicate label":
\* the error slot, never set by an addClass, is still undefined.
C22_Witness ==
  /\ last.act = "deleteClassResponse"
  /\ LastResponse = Failure(HttpErrorWith(400, "duplicate label"))
  /\ state.error = Undefined
  /\ state.isInitialized

-----------------------------------------------------------------------------
(* The first revision: a synchronous guard around un-awaited requests *)

\* The request function of the first revision's fetch from the response on:
\* the classes of the body are stored over the cache, which is not emptied.
fetchFirstRequest(s, resp) ==
  IF ~resp.ok THEN Threw(s, Val(resp.error))
  ELSE IF ~IsDefined(resp.data) THEN Threw(s, TypeError)
  ELSE Returned([s EXCEPT !.classes = PutAll(s.classes, Val(resp.data)),
                          !.isInitialized = TRUE,
                          !.isLoading = FALSE])

\* request() inside the guard's try: an async function runs to its first
\* await and returns its promise; it does not throw.
requestCall(s) == Returned(s)

\* fetch() of the first revision. The guard calls request() without
\* awaiting it, and fetch calls the guard without awaiting it: the two catch
\* blocks see the outcome of the call, and the promise of fetch resolves in
\* this task, with the request still pending.
fetchFirst ==
  /\ Idle /\ CanIssue
  /\ LET g == guardUnauthorizedRequest(requestCall(fetchCall(state)))
         f == fetchCatch(g)
     IN /\ state' = f.state
        /\ inflight' = inflight (+) One(FetchRequest)
        /\ last' = Observation("fetchFirst", Some(FetchRequest), Undefined,
                               Settled("fetch", f, Undefined), g.error, state, f.state)
  /\ UNCHANGED <<header, continuation>>

\* The response of the first revision's GET /classes: the rest of the
\* request function runs, outside every try block. When it throws, the
\* promise nobody holds is rejected and the store stays as it is.
fetchFirstResponse ==
  \E r \in Pending, resp \in FetchResponses :
    /\ Idle
    /\ r.op = "fetch"
    /\ LET f == fetchFirstRequest(state, resp)
       IN /\ state' = f.state
          /\ inflight' = inflight (-) One(r)
          /\ last' = Observation("fetchFirstResponse", Some(r), Some(resp),
                                 Undefined, Undefined, state, f.state)
    /\ UNCHANGED <<header, continuation>>

\* The first revision under fetch, logout and updateToken.
NextFirst ==
  \/ fetchFirst
  \/ fetchFirstResponse
  \/ logout
  \/ updateToken

SpecFirst == Init /\ [][NextFirst]_vars

\* C24: in the first revision, a failed request of fetch() clears isLoading,
\* and when it failed with status 401 isAuthenticated becomes false: the
\* guard and fetch's catch observe the failure of the request they wrap.
C24_SyncGuardObservesFailure ==
  [][ (/\ last'.act = "fetchFirstResponse"
       /\ ~Val(last'.resp).ok)
      => /\ ~state'.isLoading
         /\ Val(Val(last'.resp).error).status = Some(401)
            => state'.isAuthenticated = Some(FALSE) ]_vars

\* C25: when no fetch(), fetchById() or fetchSchools() call is still
\* running (no request of theirs is pending and no fetchById waits to
\* continue), isLoading and schools.isLoading are not true, whatever the
\* outcomes of the completed calls were.
C25_NoStuckLoadingFlag ==
  (/\ \A r \in Pending : r.op \notin {"fetch", "fetchById", "fetchSchools"}
   /\ continuation = Undefined)
  => /\ ~state.isLoading
     /\ state.schools.isLoading # Some(TRUE)

\* C26 as stated: isLoading is true in every state in which a fetch() or
\* fetchById() request is in flight.
C26_LoadingWhileInFlight ==
  (\E r \in Pending : r.op \in {"fetch", "fetchById"}) => state.isLoading

\* C26, amended: every fetch() and fetchById() call leaves isLoading true
\* with its request in flight, and isLoading goes from true to false only in
\* a task that handles the response of a fetch or fetchById request,
\* whichever call that request belongs to.
C26_LoadingUntilNextResponse ==
  [][ /\ last'.act \in {"fetch", "fetchById", "fetchByIdContinue"}
         => /\ state'.isLoading
            /\ \E r \in DOMAIN inflight' : r.op \in {"fetch", "fetchById"}
      /\ (state.isLoading /\ ~state'.isLoading)
         => last'.act \in {"fetchResponse", "fetchByIdResponse"} ]_vars

\* The first of two overlapping fetches has completed: isLoading is false
\* and the request of the other is still in flight.
C26_Witness ==
  /\ last.act = "fetchResponse"
  /\ LastResponse.ok
  /\ ~state.isLoading
  /\ inflight = One(FetchRequest)
  /\ continuation = Undefined

\* The task just handled a guarded request that failed with status 401.
Unauthorized(obs) ==
  /\ obs.act \in GuardedResponses
  /\ ~Val(obs.resp).ok
  /\ Val(Val(obs.resp).error).status = Some(401)

\* The task just made was a successful login or an updateToken.
LoggedIn(obs) ==
  \/ obs.act = "updateToken"
  \/ /\ obs.act = "loginResponse"
     /\ Val(obs.resp).ok
     /\ IsDefined(Val(obs.resp).data)

\* C27 as stated, for a response handled in the task that follows the
\* login: its request was pending during the login, so it was issued before
\* it, and whatever its outcome the new session is still authenticated.
C27_StaleUnauthorizedKeepsSession ==
  [][ (/\ LoggedIn(last)
       /\ state.isAuthenticated = Some(TRUE)
       /\ last'.act \in GuardedResponses)
      => state'.isAuthenticated = Some(TRUE) ]_vars

\* C27, amended: an authenticated session stays authenticated until
\* logout() is called or a guarded request fails with 401, and every 401 of
\* a guarded request ends it, also the 401 of a request that was issued
\* before the login and is handled right after it.
C27_SessionUntilLogoutOrAny401 ==
  [][ /\ (state.isAuthenticated = Some(TRUE) /\ state'.isAuthenticated # Some(TRUE))
         => (last'.act = "logout" \/ Unauthorized(last'))
      /\ Unauthorized(last') => state'.isAuthenticated = Some(FALSE)
      /\ (LoggedIn(last) /\ Unauthorized(last'))
         => state'.isAuthenticated = Some(FALSE) ]_vars

\* A request issued under the session of t1 was answered 401 after
\* updateToken had started the session of t2: the store holds the token and
\* the header of t2 and is not authenticated.
C27_Witness ==
  /\ Unauthorized(last)
  /\ state.isAuthenticated = Some(FALSE)
  /\ state.authToken = Some("t2")
  /\ header = Bearer("t2")
  /\ state.isInitialized

\* The optimistic revision under addActivityPoints, called with and without
\* immediate, overlapping full fetches.
NextOverwrite ==
  \/ fetch
  \/ fetchResponse
  \/ addActivityPoints(TRUE)
  \/ addActivityPoints(FALSE)
  \/ addActivityPointsResponse

SpecOverwrite == Init /\ [][NextOverwrite]_vars

\* Obs records a successful fetch response whose list holds the class k.
IsFetchOf(obs, k) ==
  /\ obs.act = "fetchResponse"
  /\ Val(obs.resp).ok
  /\ IsDefined(Val(obs.resp).data)
  /\ k \in Ids(Val(Val(obs.resp).data))

\* The class for k in the body of the response obs records.
BodyOf(obs, k) ==
  IF obs.act = "fetchResponse"
  THEN LastWithId(Val(Val(obs.resp).data), k)
  ELSE Val(Val(obs.resp).data)

\* The previous task was an addActivityPoints call with immediate = true
\* that changed a cached record, and this task applies the body of a fetch
\* or of an immediate = false request for the same class: a request that
\* was in flight when the call was made.
OptimisticThenAuthoritative ==
  /\ last.act = "addActivityPoints"
  /\ Val(last.args).immediate
  /\ Target(state, Val(last.args)) # 0
  /\ IsDefined(PointsOf(state, Val(last.args)))
  /\ \/ IsFetchOf(last', Val(last.args).classId)
     \/ IsReplaceOf(last', Val(last.args).classId)

C29_OptimisticOnMissingTarget ==
  [][ (last'.act \in MutationActions /\ Val(last'.args).immediate)
      => LET a == Val(last'.args)
         IN /\ a.classId \notin DOMAIN state.classes
               => /\ state' = state
                  /\ inflight' = inflight
                  /\ last'.req = Undefined
                  /\ last'.settled =
                       Some([op |-> last'.act, how |-> "rejected", value |-> Undefined])
            /\ (a.classId \in DOMAIN state.classes /\ Target(state, a) = 0)
               => /\ state'.classes = state.classes
                  /\ last'.req = Some(MutationRequest(last'.act, a.classId, a.spId, TRUE))
                  /\ inflight' = inflight (+) One(Val(last'.req))
                  /\ last'.settled = Undefined ]_vars

\* addActivityPoints(2, 1, ..) was called with immediate = true on a store
\* that caches class 1 only: the call was rejected, nothing is in flight and
\* class 1 is as the fetch left it.
C29_Witness ==
  /\ last.act = "addActivityPoints"
  /\ Val(last.args).immediate
  /\ Val(last.args).classId = 2
  /\ DOMAIN state.classes = {1}
  /\ state.classes[1] = Class1
  /\ last.req = Undefined
  /\ Val(last.settled).how = "rejected"
  /\ inflight = EmptyBag

====
